---- MODULE Spec2Model ----
(***************************************************************************)
(* Model of the blog backend host (ashrobertsdragon/blog-code):            *)
(*   - backend/main.py   create_app and its catch-all handler serve_spa    *)
(*   - backend/config.py the settings classes, _db_settings, get_db_url    *)
(*   - backend/api/routes/health.py   the three health probes              *)
(* Paths are sequences of one-character strings, so that percent-decoding, *)
(* substring tests and prefix tests are computed character by character.   *)
(***************************************************************************)
EXTENDS Integers, Sequences, FiniteSets, TLC

VARIABLES
    flask_env,  \* os.environ["FLASK_ENV"], or Absent
    fs,         \* the file system around build_dir
    app,        \* the result of create_app
    last,       \* the latest request, its response and the fs it was served from
    prev,       \* the exchange before it
    environ,    \* os.environ without FLASK_ENV: variable name -> value or Absent
    alt_fs,     \* the file system around the directory BUILD_DIR names
    stage,      \* where the request in progress stands inside serve_spa
    db_cache,   \* the lru_cache of _db_settings: argument -> Settings
    url_cache,  \* the lru_cache of get_db_url
    call,       \* the latest call into the settings module and its outcome
    rets,       \* what each call signature returned since its cache was cleared
    thr,        \* the threads inside _db_settings and get_db_url
    deps,       \* the state of the database and of the GitHub API
    probe       \* the latest health probe and its response

\* the state of the settings module
settings_vars == <<environ, db_cache, url_cache, call, rets, thr>>

\* the state the health probes look at
health_vars == <<deps, probe>>

vars == <<flask_env, fs, app, last, prev, alt_fs, stage, settings_vars, health_vars>>

----------------------------------------------------------------------------
(* Bounds *)

\* request paths are concatenations of at most MaxChunks chunks of PathChunks
MaxChunks == 3

----------------------------------------------------------------------------
(* Character sequences *)

api_prefix == <<"a", "p", "i", "/">>
static_prefix == <<"s", "t", "a", "t", "i", "c", "/">>
static_name == <<"s", "t", "a", "t", "i", "c">>
index_html == <<"i", "n", "d", "e", "x", ".", "h", "t", "m", "l">>
asset_name == <<"a">>
dotdot == <<".", ".">>
backslash == <<"\\">>

StartsWith(s, p) == Len(s) >= Len(p) /\ SubSeq(s, 1, Len(p)) = p

Contains(s, p) ==
    \E i \in 1..(Len(s) - Len(p) + 1) : SubSeq(s, i, i + Len(p) - 1) = p

\* the hexadecimal digits that occur in the request alphabet
HexDigits == {"1", "2", "5", "6", "a", "c", "d", "e"}

\* chr(int(h1 h2, 16)); a byte >= 0x80 standing alone decodes to U+FFFD
\* (unquote decodes with errors="replace")
HexChar(h1, h2) ==
    CASE h1 = "1" -> (CASE h2 = "1" -> "U+0011"
                        [] h2 = "2" -> "U+0012"
                        [] h2 = "5" -> "U+0015"
                        [] h2 = "6" -> "U+0016"
                        [] h2 = "a" -> "U+001A"
                        [] h2 = "c" -> "U+001C"
                        [] h2 = "d" -> "U+001D"
                        [] OTHER    -> "U+001E")
      [] h1 = "2" -> (CASE h2 = "1" -> "!"
                        [] h2 = "2" -> "\""
                        [] h2 = "5" -> "%"
                        [] h2 = "6" -> "&"
                        [] h2 = "a" -> "*"
                        [] h2 = "c" -> ","
                        [] h2 = "d" -> "-"
                        [] OTHER    -> ".")
      [] h1 = "5" -> (CASE h2 = "1" -> "Q"
                        [] h2 = "2" -> "R"
                        [] h2 = "5" -> "U"
                        [] h2 = "6" -> "V"
                        [] h2 = "a" -> "Z"
                        [] h2 = "c" -> "\\"
                        [] h2 = "d" -> "]"
                        [] OTHER    -> "^")
      [] h1 = "6" -> (CASE h2 = "1" -> "a"
                        [] h2 = "2" -> "b"
                        [] h2 = "5" -> "e"
                        [] h2 = "6" -> "f"
                        [] h2 = "a" -> "j"
                        [] h2 = "c" -> "l"
                        [] h2 = "d" -> "m"
                        [] OTHER    -> "n")
      [] OTHER -> "U+FFFD"

\* urllib.parse.unquote: every %XX with two hex digits becomes one character,
\* anything else is copied
RECURSIVE unquote(_)
unquote(s) ==
    IF s = <<>> THEN <<>>
    ELSE IF Head(s) = "%" /\ Len(s) >= 3 /\ s[2] \in HexDigits /\ s[3] \in HexDigits
         THEN <<HexChar(s[2], s[3])>> \o unquote(SubSeq(s, 4, Len(s)))
         ELSE <<Head(s)>> \o unquote(Tail(s))

\* str.split("/")
RECURSIVE SplitSlash(_, _)
SplitSlash(s, cur) ==
    IF s = <<>> THEN <<cur>>
    ELSE IF Head(s) = "/" THEN <<cur>> \o SplitSlash(Tail(s), <<>>)
         ELSE SplitSlash(Tail(s), Append(cur, Head(s)))

Segments(s) == SplitSlash(s, <<>>)

----------------------------------------------------------------------------
(* File system.  A location is a sequence of path segments below build_dir; *)
(* the segment ".." leads to the directory that holds build_dir.            *)

Kinds == {"absent", "file", "dir", "error"}   \* "error": stat() raises OSError

build_dir == <<>>
static_dir == <<static_name>>

NoTree == [root |-> "absent", index |-> "absent", asset |-> "absent", static |-> "absent"]

FsStates ==
    {[root |-> "absent", index |-> "absent", asset |-> "absent", static |-> "absent"]}
    \cup [root : {"dir"}, index : Kinds, asset : Kinds, static : {"absent", "file"}]

KindOf(f, node) ==
    CASE node = "PARENT"   -> "dir"
      [] node = "ROOT"     -> f.root
      [] node = "INDEX"    -> f.index
      [] node = "ASSET"    -> f.asset
      [] node = "STATIC"   -> f.root
      [] node = "STATIC_A" -> f.static
      [] node = "OUTSIDE"  -> "file"     \* a file next to build_dir
      [] OTHER             -> "absent"

Child(node, seg) ==
    CASE node = "ROOT" /\ seg = dotdot       -> "PARENT"
      [] node = "ROOT" /\ seg = index_html   -> "INDEX"
      [] node = "ROOT" /\ seg = asset_name   -> "ASSET"
      [] node = "ROOT" /\ seg = static_name  -> "STATIC"
      [] node = "STATIC" /\ seg = asset_name -> "STATIC_A"
      [] node = "STATIC" /\ seg = dotdot     -> "ROOT"
      [] node = "ASSET" /\ seg = dotdot      -> "ROOT"
      [] node = "PARENT" /\ seg = asset_name -> "OUTSIDE"
      [] OTHER                               -> "NONE"

\* what stat() finds at a location, resolving it one segment at a time
RECURSIVE Walk(_, _, _)
Walk(f, node, segs) ==
    IF segs = <<>> THEN KindOf(f, node)
    ELSE IF KindOf(f, node) = "dir" THEN Walk(f, Child(node, Head(segs)), Tail(segs))
         ELSE IF KindOf(f, node) = "error" THEN "error"
              ELSE "absent"

Stat(f, loc) == Walk(f, "ROOT", loc)

\* the node a location resolves to ("NONE" when it resolves to nothing)
RECURSIVE NodeAt(_, _, _)
NodeAt(f, node, segs) ==
    IF segs = <<>> THEN node
    ELSE IF KindOf(f, node) = "dir" THEN NodeAt(f, Child(node, Head(segs)), Tail(segs))
         ELSE "NONE"

\* the files that lie inside build_dir
InsideNodes == {"INDEX", "ASSET", "STATIC_A"}

\* pathlib: Path.is_file() is True for a regular file, False for anything it
\* cannot find, and raises the OSError of stat() otherwise
is_file(f, loc) == Stat(f, loc) = "file"
is_file_raises(f, loc) == Stat(f, loc) = "error"

\* pathlib: Path.exists() likewise
exists(f, loc) == Stat(f, loc) \in {"file", "dir"}
exists_raises(f, loc) == Stat(f, loc) = "error"

\* os.path.isfile never raises
os_path_isfile(f, loc) == Stat(f, loc) = "file"

\* pathlib: directory / path drops empty and "." segments and keeps ".."
RECURSIVE PathSegments(_)
PathSegments(segs) ==
    IF segs = <<>> THEN <<>>
    ELSE IF Head(segs) = <<>> \/ Head(segs) = <<".">> THEN PathSegments(Tail(segs))
         ELSE <<Head(segs)>> \o PathSegments(Tail(segs))

PathJoin(directory, path) == directory \o PathSegments(Segments(path))

\* posixpath.normpath on a relative path: "a/../b" becomes "b", a leading ".." stays
RECURSIVE NormSegments(_, _)
NormSegments(segs, acc) ==
    IF segs = <<>> THEN acc
    ELSE LET h == Head(segs) IN
         IF h = <<>> \/ h = <<".">> THEN NormSegments(Tail(segs), acc)
         ELSE IF h = dotdot /\ acc # <<>> /\ acc[Len(acc)] # dotdot
              THEN NormSegments(Tail(segs), SubSeq(acc, 1, Len(acc) - 1))
              ELSE NormSegments(Tail(segs), Append(acc, h))

normpath(path) == NormSegments(Segments(path), <<>>)

----------------------------------------------------------------------------
(* Responses *)

NoLoc == <<>>
NoResp == [status |-> 0, kind |-> "none", error |-> "", loc |-> NoLoc]

Json(status, error) == [status |-> status, kind |-> "json", error |-> error, loc |-> NoLoc]

\* a file sent by send_file
Sent(loc) == [status |-> 200, kind |-> "file", error |-> "", loc |-> loc]

\* werkzeug's NotFound, rendered by Flask as an HTML 404 page
NotFound == [status |-> 404, kind |-> "html", error |-> "NotFound", loc |-> NoLoc]

\* an exception nothing handles: Flask answers 500
Unhandled(e) == [status |-> 500, kind |-> "exception", error |-> e, loc |-> NoLoc]

InvalidPathResp == Json(400, "Invalid path")
NotFoundResp == Json(404, "Not found")
UnavailableResp == Json(503, "Service unavailable")

----------------------------------------------------------------------------
(* werkzeug *)

\* werkzeug.security.safe_join: None (here <<"None">>) for a path that is
\* absolute or leaves the directory
None == <<"None">>

safe_join(directory, path) ==
    LET n == normpath(path) IN
    IF (path # <<>> /\ Head(path) = "/") \/ (n # <<>> /\ Head(n) = dotdot)
    THEN None
    ELSE directory \o n

\* werkzeug.utils.send_from_directory: NotFound unless the joined path is a
\* regular file
send_from_directory(directory, path, f) ==
    LET joined == safe_join(directory, path) IN
    IF joined = None THEN NotFound
    ELSE IF ~os_path_isfile(f, joined) THEN NotFound
         ELSE Sent(joined)

----------------------------------------------------------------------------
(* create_app.serve_spa *)

\* a single decoding pass instead of two
InvalidPathDecodedOnce(path) ==
    LET decoded_path == unquote(path) IN
    Contains(decoded_path, dotdot) \/ Contains(decoded_path, backslash)

\* main.py 82-83
InvalidPath(path) ==
    LET decoded_path == unquote(unquote(path)) IN
    Contains(decoded_path, dotdot) \/ Contains(decoded_path, backslash)

\* the prefix written with the leading slash that the routed path never has
IsApiPathWithSlash(path) == StartsWith(path, <<"/">> \o api_prefix)

\* the prefix test made after the decoding
IsApiPathDecoded(path) == StartsWith(unquote(unquote(path)), api_prefix)

\* main.py 87
IsApiPath(path) == StartsWith(path, api_prefix)

\* main.py 98-102
serve_index(f) ==
    LET index_path == PathJoin(build_dir, index_html) IN
    IF exists_raises(f, index_path) THEN Unhandled("OSError")
    ELSE IF ~exists(f, index_path) THEN UnavailableResp
         ELSE LET r == send_from_directory(build_dir, index_html, f) IN
              IF r.status = 200 THEN [r EXCEPT !.kind = "index"] ELSE r

\* no traversal check, and the located file sent as it is
serve_spa_unguarded(path, f) ==
    IF IsApiPath(path) THEN NotFoundResp
    ELSE LET file_path == PathJoin(build_dir, path) IN
         IF path # <<>> /\ ~is_file_raises(f, file_path) /\ is_file(f, file_path)
         THEN Sent(file_path)
         ELSE serve_index(f)

\* the entry document for every path, without the file lookup
serve_spa_index_only(path, f) ==
    IF InvalidPath(path) THEN InvalidPathResp
    ELSE IF IsApiPath(path) THEN NotFoundResp
    ELSE serve_index(f)

\* main.py 66-102
serve_spa(path, f) ==
    IF InvalidPath(path) THEN InvalidPathResp
    ELSE IF IsApiPath(path) THEN NotFoundResp
    ELSE LET file_path == PathJoin(build_dir, path) IN
         IF path # <<>> /\ ~is_file_raises(f, file_path) /\ is_file(f, file_path)
         THEN send_from_directory(build_dir, path, f)
         ELSE serve_index(f)

\* Flask's static view, registered by Flask(static_folder=..., static_url_path="/static")
send_static_file(filename, f) == send_from_directory(static_dir, filename, f)

\* the rule "/static/<path:filename>" is more specific than "/<path:path>"
IsStaticRoute(path) == StartsWith(path, static_prefix) /\ Len(path) > Len(static_prefix)

\* every path answered by the catch-all view
DispatchCatchAll(path, f) == serve_spa(path, f)

\* URL routing: which view answers a path
Dispatch(path, f) ==
    IF IsStaticRoute(path)
    THEN send_static_file(SubSeq(path, Len(static_prefix) + 1, Len(path)), f)
    ELSE serve_spa(path, f)

----------------------------------------------------------------------------
(* Requests *)

\* "api/" with its first letter percent-encoded
api_encoded == <<"%", "6", "1", "p", "i", "/">>

PathChunks ==
    { <<"a">>, <<"/">>, <<".">>, dotdot, backslash,
      <<"%", "2", "e">>, <<"%", "2", "5">>, <<"2", "e">>, <<"%", "5", "c">>, <<"5", "c">>,
      api_prefix, api_encoded, static_prefix, index_html }

RECURSIVE ChunkSeqs(_)
ChunkSeqs(n) ==
    IF n = 0 THEN {<<>>}
    ELSE LET S == ChunkSeqs(n - 1) IN S \cup {s \o c : s \in S, c \in PathChunks}

\* the rule "/<path:path>" matches no path that starts with "/", and a path
\* with "//" is redirected before any view runs
Routable(path) ==
    /\ ~StartsWith(path, <<"/">>)
    /\ ~Contains(path, <<"/", "/">>)

Paths == {p \in ChunkSeqs(MaxChunks) : Routable(p)}

NoQuery == <<>>
NoReq == [path |-> <<"-">>, query |-> NoQuery]
Req(path, query) == [path |-> path, query |-> query]

NoExchange == [req |-> NoReq, resp |-> NoResp, fs |-> CHOOSE f \in FsStates : f.root = "absent"]

----------------------------------------------------------------------------
(* The application *)

Absent == "<absent>"
NoApp == [state |-> "none", cors |-> FALSE, warned |-> FALSE, build_found |-> FALSE]

\* create_app raised RuntimeError: there is no application
Failed == [state |-> "failed", cors |-> FALSE, warned |-> FALSE, build_found |-> FALSE]

\* the application create_app returns; build_found is what build_dir.exists()
\* answered at line 50, and the warning is logged when it answered False
Running(cors, build_found) ==
    [state |-> "running", cors |-> cors, warned |-> ~build_found, build_found |-> build_found]

\* os.environ.get("FLASK_ENV", FlaskEnv.PRODUCTION)
EnvOrDefault(env) == IF env = Absent THEN "PRODUCTION" ELSE env

\* a missing build directory is fatal whatever the profile
create_app_always_fatal ==
    /\ app.state = "none"
    /\ app' = IF ~exists(fs, build_dir) THEN Failed
              ELSE Running(EnvOrDefault(flask_env) = "DEVELOPMENT", TRUE)
    /\ UNCHANGED <<flask_env, fs, last, prev>>
    /\ UNCHANGED <<alt_fs, stage, settings_vars, health_vars>>

\* cross-origin support for every profile but PRODUCTION
create_app_cors_unless_production ==
    /\ app.state = "none"
    /\ LET env == EnvOrDefault(flask_env)
           found == exists(fs, build_dir)
       IN app' = IF ~found /\ env = "PRODUCTION" THEN Failed
                 ELSE Running(env # "PRODUCTION", found)
    /\ UNCHANGED <<flask_env, fs, last, prev>>
    /\ UNCHANGED <<alt_fs, stage, settings_vars, health_vars>>

\* main.py 21-62, 104
create_app ==
    /\ app.state = "none"
    /\ LET env == EnvOrDefault(flask_env)
           found == exists(fs, build_dir)
       IN app' = IF ~found /\ env = "PRODUCTION" THEN Failed
                 ELSE Running(env = "DEVELOPMENT", found)
    /\ UNCHANGED <<flask_env, fs, last, prev>>
    /\ UNCHANGED <<alt_fs, stage, settings_vars, health_vars>>

\* the view given the path together with the query string
RequestFullPath(r) ==
    IF r.query = NoQuery THEN r.path ELSE r.path \o <<"?">> \o r.query

\* the routes "/" and "/<path:path>" hand the view the path component alone
RequestPath(r) == r.path

\* a worker answers the request that is waiting
Handle ==
    /\ app.state = "running"
    /\ last.req # NoReq
    /\ last.resp = NoResp
    /\ last' = [req |-> last.req, resp |-> Dispatch(RequestPath(last.req), fs), fs |-> fs]
    /\ UNCHANGED <<flask_env, fs, app, prev>>
    /\ UNCHANGED <<alt_fs, stage, settings_vars, health_vars>>

\* availability decided once, from what create_app saw
RequestStartupCached(r) ==
    /\ app.state = "running"
    /\ prev' = last
    /\ last' = [req |-> r,
                resp |-> IF app.warned THEN UnavailableResp
                         ELSE Dispatch(RequestPath(r), fs),
                fs |-> fs]
    /\ UNCHANGED <<flask_env, fs, app>>
    /\ UNCHANGED <<alt_fs, stage, settings_vars, health_vars>>

\* a request arrives and is answered from the file system as it is now
Request(r) ==
    /\ app.state = "running"
    /\ prev' = last
    /\ last' = [req |-> r, resp |-> Dispatch(RequestPath(r), fs), fs |-> fs]
    /\ UNCHANGED <<flask_env, fs, app>>
    /\ UNCHANGED <<alt_fs, stage, settings_vars, health_vars>>

----------------------------------------------------------------------------
(* serve_spa step by step: the file system may change between its reads *)

\* where a request stands inside serve_spa; changed: the file system changed
\* since the request arrived; raced: it changed after is_file() or exists()
\* had answered and before the file was sent
NoStage == [at |-> "idle", changed |-> FALSE, raced |-> FALSE]

Answer(resp) ==
    /\ last' = [last EXCEPT !.resp = resp]
    /\ stage' = [stage EXCEPT !.at = "done"]

Move(at) ==
    /\ stage' = [stage EXCEPT !.at = at]
    /\ UNCHANGED last

\* main.py 82-90: the checks on the path alone
spa_begin(r) ==
    /\ app.state = "running"
    /\ stage.at \in {"idle", "done"}
    /\ prev' = last
    /\ LET path == RequestPath(r) IN
       IF InvalidPath(path)
       THEN /\ last' = [req |-> r, resp |-> InvalidPathResp, fs |-> fs]
            /\ stage' = [NoStage EXCEPT !.at = "done"]
       ELSE IF IsApiPath(path)
       THEN /\ last' = [req |-> r, resp |-> NotFoundResp, fs |-> fs]
            /\ stage' = [NoStage EXCEPT !.at = "done"]
       ELSE /\ last' = [req |-> r, resp |-> NoResp, fs |-> fs]
            /\ stage' = [NoStage EXCEPT !.at = IF path # <<>> THEN "is_file" ELSE "exists"]
    /\ UNCHANGED <<flask_env, fs, app>>
    /\ UNCHANGED <<alt_fs, settings_vars, health_vars>>

\* main.py 93: file_path.is_file(), its OSError caught at 95
spa_is_file ==
    /\ stage.at = "is_file"
    /\ LET file_path == PathJoin(build_dir, RequestPath(last.req)) IN
       Move(IF ~is_file_raises(fs, file_path) /\ is_file(fs, file_path)
            THEN "send_file" ELSE "exists")
    /\ UNCHANGED <<flask_env, fs, app, prev>>
    /\ UNCHANGED <<alt_fs, settings_vars, health_vars>>

\* main.py 94: send_from_directory looks at the file again; its NotFound is
\* not an OSError or a ValueError and leaves the view
spa_send_file ==
    /\ stage.at = "send_file"
    /\ LET r == send_from_directory(build_dir, RequestPath(last.req), fs) IN
       IF r.status = 200 THEN Move("open_file") ELSE Answer(r)
    /\ UNCHANGED <<flask_env, fs, app, prev>>
    /\ UNCHANGED <<alt_fs, settings_vars, health_vars>>

\* main.py 94-96: send_file stats and opens the file; the OSError of a file
\* that is gone is caught and the view goes on to the entry document
spa_open_file ==
    /\ stage.at = "open_file"
    /\ LET r == send_from_directory(build_dir, RequestPath(last.req), fs) IN
       IF r.status = 200 THEN Answer(r) ELSE Move("exists")
    /\ UNCHANGED <<flask_env, fs, app, prev>>
    /\ UNCHANGED <<alt_fs, settings_vars, health_vars>>

\* main.py 98-100: index_path.exists()
spa_exists ==
    /\ stage.at = "exists"
    /\ LET index_path == PathJoin(build_dir, index_html) IN
       IF exists_raises(fs, index_path) THEN Answer(Unhandled("OSError"))
       ELSE IF ~exists(fs, index_path) THEN Answer(UnavailableResp)
            ELSE Move("send_index")
    /\ UNCHANGED <<flask_env, fs, app, prev>>
    /\ UNCHANGED <<alt_fs, settings_vars, health_vars>>

\* main.py 102: send_from_directory looks at index.html again
spa_send_index ==
    /\ stage.at = "send_index"
    /\ LET r == send_from_directory(build_dir, index_html, fs) IN
       IF r.status = 200 THEN Move("open_index") ELSE Answer(r)
    /\ UNCHANGED <<flask_env, fs, app, prev>>
    /\ UNCHANGED <<alt_fs, settings_vars, health_vars>>

\* main.py 102: send_file stats and opens index.html, outside any try
spa_open_index ==
    /\ stage.at = "open_index"
    /\ LET r == send_from_directory(build_dir, index_html, fs) IN
       IF r.status = 200 THEN Answer([r EXCEPT !.kind = "index"])
       ELSE Answer(Unhandled("FileNotFoundError"))
    /\ UNCHANGED <<flask_env, fs, app, prev>>
    /\ UNCHANGED <<alt_fs, settings_vars, health_vars>>

----------------------------------------------------------------------------
(* config.py: the environment and the settings classes *)

FlaskEnv == {"PRODUCTION", "DEVELOPMENT", "TESTING"}

Classes == {"DBSettings", "TestDBSettings", "DevDBSettings", "ProductionDBSettings"}
Variants == Classes \ {"DBSettings"}

RequiredFields == {"DB_NAME", "DB_USER", "DB_PASSWORD"}
DBFields == {"DB_HOST"} \cup RequiredFields \cup {"FLASK_ENV"}

\* an environment variable is named by a prefix and the rest of the name
EnvName(prefix, field) == <<prefix, field>>
EnvNames ==
    {EnvName(p, f) : p \in {"", "LOCAL_", "CPANEL_"}, f \in DBFields \cup {"BUILD_DIR"}}
        \ {EnvName("", "FLASK_ENV")}

\* os.environ.get(name): FLASK_ENV is kept in flask_env
getenv(env, fe, name) ==
    IF name = EnvName("", "FLASK_ENV") THEN fe ELSE env[name]

NoEnviron == [n \in EnvNames |-> Absent]

\* model_config of each class
env_prefix(cls) ==
    IF cls \in {"TestDBSettings", "DevDBSettings"} THEN "LOCAL_" ELSE ""

\* the FLASK_ENV attribute of each class
class_FLASK_ENV(cls) ==
    CASE cls = "TestDBSettings" -> "TESTING"
      [] cls = "DevDBSettings" -> "DEVELOPMENT"
      [] OTHER -> "PRODUCTION"

NoAlias == "<no alias>"

\* Field(validation_alias=...): the subclasses redefine FLASK_ENV without one
validation_alias(cls, field) ==
    CASE field = "DB_HOST" -> "DB_HOST"
      [] field = "FLASK_ENV" /\ cls = "DBSettings" -> "FLASK_ENV"
      [] OTHER -> NoAlias

\* the variable a field is read from: an alias is used as it is, without
\* the prefix
env_name(cls, field) ==
    IF validation_alias(cls, field) # NoAlias
    THEN EnvName("", validation_alias(cls, field))
    ELSE EnvName(env_prefix(cls), field)

Required == "<required>"

field_default_lenient(cls, field) ==
    CASE field = "DB_HOST" -> "localhost"
      [] field = "FLASK_ENV" -> class_FLASK_ENV(cls)
      [] field = "DB_PASSWORD" -> "password"
      [] OTHER -> Required

field_default(cls, field) ==
    CASE field = "DB_HOST" -> "localhost"
      [] field = "FLASK_ENV" -> class_FLASK_ENV(cls)
      [] OTHER -> Required

field_value(cls, field, env, fe) ==
    LET v == getenv(env, fe, env_name(cls, field))
    IN IF v = Absent THEN field_default(cls, field) ELSE v

ValidationError(fields) == [kind |-> "ValidationError", fields |-> fields]

IsError(v) == v.kind = "ValidationError"

\* cls(): every field is read and validated, and the errors are collected
construct(cls, env, fe) ==
    LET missing == {f \in DBFields : field_value(cls, f, env, fe) = Required}
        invalid == {f \in {"FLASK_ENV"} : field_value(cls, f, env, fe) \notin FlaskEnv}
    IN IF missing \cup invalid # {}
       THEN ValidationError(missing \cup invalid)
       ELSE [kind |-> "settings",
             cls |-> cls,
             DB_HOST |-> field_value(cls, "DB_HOST", env, fe),
             DB_NAME |-> field_value(cls, "DB_NAME", env, fe),
             DB_USER |-> field_value(cls, "DB_USER", env, fe),
             DB_PASSWORD |-> field_value(cls, "DB_PASSWORD", env, fe),
             FLASK_ENV |-> field_value(cls, "FLASK_ENV", env, fe)]

\* DBSettings.url
url(settings) ==
    [kind |-> "url",
     text |-> <<"postgresql+psycopg2://", settings.DB_USER, ":",
                settings.DB_PASSWORD, "@", settings.DB_HOST, "/",
                settings.DB_NAME>>]

\* FlaskSettings.BUILD_DIR
DefaultBuildDir == "<default>"

BUILD_DIR(env) ==
    IF env[EnvName("", "BUILD_DIR")] = Absent
    THEN DefaultBuildDir
    ELSE env[EnvName("", "BUILD_DIR")]

EmptyDict == [k \in {} |-> k]

\* DBSettings.__init_subclass__, run once for each subclass definition
init_subclass(reg, cls) ==
    [k \in DOMAIN reg \cup {class_FLASK_ENV(cls)} |->
        IF k = class_FLASK_ENV(cls) THEN cls ELSE reg[k]]

registry ==
    init_subclass(
        init_subclass(init_subclass(EmptyDict, "TestDBSettings"), "DevDBSettings"),
        "ProductionDBSettings")

NoHint == "<None>"

db_settings_production_only(hint, env, fe) ==
    construct("ProductionDBSettings", env, fe)

\* the body of _db_settings: a KeyError comes from os.environ, from
\* FlaskEnv[env] or from the registry
db_settings(hint, env, fe) ==
    LET e == IF hint \notin {NoHint, ""} THEN hint ELSE fe
    IN IF e = Absent \/ e \notin FlaskEnv \/ e \notin DOMAIN registry
       THEN construct("ProductionDBSettings", env, fe)
       ELSE construct(registry[e], env, fe)

lru_cache_one_slot(cache, key, computed) ==
    IF key \in DOMAIN cache
    THEN [result |-> cache[key], cache |-> cache]
    ELSE IF IsError(computed)
         THEN [result |-> computed, cache |-> cache]
         ELSE [result |-> computed, cache |-> (key :> computed)]

lru_cache_memo_errors(cache, key, computed) ==
    IF key \in DOMAIN cache
    THEN [result |-> cache[key], cache |-> cache]
    ELSE [result |-> computed, cache |-> (key :> computed) @@ cache]

lru_cache_off(cache, key, computed) ==
    [result |-> computed, cache |-> cache]

\* functools.lru_cache around one call: a raised exception is not stored
lru_cache(cache, key, computed) ==
    IF key \in DOMAIN cache
    THEN [result |-> cache[key], cache |-> cache]
    ELSE IF IsError(computed)
         THEN [result |-> computed, cache |-> cache]
         ELSE [result |-> computed, cache |-> (key :> computed) @@ cache]

NoArgs == "()"

get_db_url_own_settings(dbc, urlc, env, fe) ==
    LET s == db_settings(NoHint, env, fe)
        outer == lru_cache(urlc, NoArgs, IF IsError(s) THEN s ELSE url(s))
    IN [result |-> outer.result, db_cache |-> dbc, url_cache |-> outer.cache]

\* get_db_url(): on a miss its body calls _db_settings()
get_db_url(dbc, urlc, env, fe) ==
    LET inner == lru_cache(dbc, NoHint, db_settings(NoHint, env, fe))
        body == IF IsError(inner.result) THEN inner.result ELSE url(inner.result)
        outer == lru_cache(urlc, NoArgs, body)
    IN [result |-> outer.result,
        db_cache |-> IF NoArgs \in DOMAIN urlc THEN dbc ELSE inner.cache,
        url_cache |-> outer.cache]

----------------------------------------------------------------------------
(* Calls into config.py *)

NoRet == [kind |-> "none"]
NoCall == [fn |-> "none"]

Sig(fn, hint) == <<fn, hint>>


\* a call as its caller sees it, with the environment it ran in, what the
\* same call returned before and whether the call before it was the same
\* call and raised
Called(fn, hint, result) ==
    [fn |-> fn, hint |-> hint, result |-> result,
     prior |-> IF Sig(fn, hint) \in DOMAIN rets THEN rets[Sig(fn, hint)] ELSE NoRet,
     after_error |-> call.fn = fn /\ call.hint = hint /\ IsError(call.result),
     cold |-> db_cache = EmptyDict /\ url_cache = EmptyDict,
     environ |-> environ, flask_env |-> flask_env]

Returned(sig, result) ==
    IF IsError(result) THEN rets ELSE (sig :> result) @@ rets

web_vars == <<fs, app, last, prev, alt_fs, stage>>

\* _db_settings(hint)
call_db_settings(hint) ==
    LET r == lru_cache(db_cache, hint, db_settings(hint, environ, flask_env))
    IN /\ db_cache' = r.cache
       /\ call' = Called("_db_settings", hint, r.result)
       /\ rets' = Returned(Sig("_db_settings", hint), r.result)
       /\ UNCHANGED <<flask_env, web_vars, health_vars, environ, url_cache, thr>>

\* get_db_url()
call_get_db_url ==
    LET r == get_db_url(db_cache, url_cache, environ, flask_env)
    IN /\ db_cache' = r.db_cache
       /\ url_cache' = r.url_cache
       /\ call' = Called("get_db_url", NoArgs, r.result)
       /\ rets' = Returned(Sig("get_db_url", NoArgs), r.result)
       /\ UNCHANGED <<flask_env, web_vars, health_vars, environ, thr>>

\* cls(), as the tests construct a variant directly
instantiate(cls) ==
    /\ call' = Called(cls, NoArgs, construct(cls, environ, flask_env))
    /\ UNCHANGED <<flask_env, web_vars, health_vars, environ, db_cache, url_cache, rets, thr>>

\* _db_settings.cache_clear()
db_settings_cache_clear ==
    /\ db_cache' = EmptyDict
    /\ rets' = [s \in {x \in DOMAIN rets : x[1] # "_db_settings"} |-> rets[s]]
    /\ UNCHANGED <<flask_env, web_vars, health_vars, environ, url_cache, call, thr>>

\* get_db_url.cache_clear()
get_db_url_cache_clear ==
    /\ url_cache' = EmptyDict
    /\ rets' = [s \in {x \in DOMAIN rets : x[1] # "get_db_url"} |-> rets[s]]
    /\ UNCHANGED <<flask_env, web_vars, health_vars, environ, db_cache, call, thr>>

\* os.environ[name] = value, or del os.environ[name]
setenv(name, value) ==
    /\ environ[name] # value
    /\ environ' = [environ EXCEPT ![name] = value]
    /\ UNCHANGED <<flask_env, web_vars, health_vars, db_cache, url_cache, call, rets, thr>>

\* os.environ["FLASK_ENV"] = value
set_flask_env(value) ==
    /\ flask_env # value
    /\ flask_env' = value
    /\ UNCHANGED <<web_vars, health_vars, settings_vars>>

----------------------------------------------------------------------------
(* Threads and probes at rest *)

NumThreads == 2
Threads == 1..NumThreads

\* nothing of config.py has been called
CachesIdle ==
    /\ db_cache = EmptyDict
    /\ url_cache = EmptyDict
    /\ call = NoCall
    /\ rets = EmptyDict
    /\ thr = [t \in Threads |-> [pc |-> "idle", fn |-> "none", local |-> NoRet,
                              result |-> NoRet, built |-> FALSE]]

SettingsIdle == environ = NoEnviron /\ CachesIdle

NoProbe == [name |-> "none"]

\* what requests.get does: it returns a response or raises
Response(status) == [kind |-> "response", status |-> status]
Raises(exc) == [kind |-> "raises", exc |-> exc]

HealthIdle ==
    /\ deps = [db |-> "up", github |-> Response(200)]
    /\ probe = NoProbe

----------------------------------------------------------------------------
(* The specifications of the static resolver *)

\* One request against every file-system state: the resolver as a function
InitResolve ==
    /\ flask_env = "TESTING"
    /\ fs \in FsStates
    /\ app = Running(FALSE, fs.root = "dir")
    /\ \E p \in Paths : last = [req |-> Req(p, NoQuery), resp |-> NoResp, fs |-> fs]
    /\ prev = NoExchange
    /\ alt_fs = NoTree
    /\ stage = NoStage
    /\ SettingsIdle
    /\ HealthIdle

NextResolve == Handle

SpecResolve == InitResolve /\ [][NextResolve]_vars

----------------------------------------------------------------------------
(* The host: start-up, then requests, while a deployment changes build_dir *)

EnvValues == {Absent, "PRODUCTION", "DEVELOPMENT", "TESTING", "production"}

HostFs ==
    {f \in FsStates : /\ f.index \in {"absent", "file"}
                      /\ f.asset \in {"absent", "file"}
                      /\ f.static = "absent"}

HostPaths == {<<>>, asset_name, api_prefix \o asset_name, dotdot}
HostRequests ==
    {Req(p, q) : p \in HostPaths, q \in {NoQuery, <<"q">>, <<"q", "=", ".", ".", "\\">>}}

\* the build directory is deployed, replaced or removed
FsChange ==
    /\ \E f \in HostFs : f # fs /\ fs' = f
    /\ UNCHANGED <<flask_env, app, last, prev>>
    /\ UNCHANGED <<alt_fs, stage, settings_vars, health_vars>>

InitHost ==
    /\ flask_env \in EnvValues
    /\ fs \in HostFs
    /\ app = NoApp
    /\ last = NoExchange
    /\ prev = NoExchange
    /\ alt_fs = NoTree
    /\ stage = NoStage
    /\ SettingsIdle
    /\ HealthIdle

NextHost ==
    \/ create_app
    \/ \E r \in HostRequests : Request(r)
    \/ FsChange

SpecHost == InitHost /\ [][NextHost]_vars

----------------------------------------------------------------------------
(* The asset root: start-up and requests while BUILD_DIR names a directory *)

CustomBuildDir == "/srv/site/build"

InitAssetRoot ==
    /\ flask_env \in {"TESTING", "PRODUCTION"}
    /\ fs \in HostFs
    /\ alt_fs \in HostFs
    /\ stage = NoStage
    /\ app = NoApp
    /\ last = NoExchange
    /\ prev = NoExchange
    /\ \E b \in {Absent, CustomBuildDir} :
           environ = [NoEnviron EXCEPT ![EnvName("", "BUILD_DIR")] = b]
    /\ CachesIdle
    /\ HealthIdle

NextAssetRoot ==
    \/ create_app
    \/ \E r \in HostRequests : Request(r)

SpecAssetRoot == InitAssetRoot /\ [][NextAssetRoot]_vars

----------------------------------------------------------------------------
(* One call into config.py, with empty caches, in every environment *)

\* the values the test fixtures give to the variables
SampleEnviron ==
    (EnvName("", "DB_HOST") :> "standard_host")
    @@ (EnvName("", "DB_NAME") :> "PRODUCTION_DB")
    @@ (EnvName("", "DB_USER") :> "PRODUCTION_USER")
    @@ (EnvName("", "DB_PASSWORD") :> "PRODUCTION_PASSWORD")
    @@ (EnvName("LOCAL_", "DB_HOST") :> "local_host")
    @@ (EnvName("LOCAL_", "DB_NAME") :> "DEV_DB")
    @@ (EnvName("LOCAL_", "DB_USER") :> "DEV_USER")
    @@ (EnvName("LOCAL_", "DB_PASSWORD") :> "DEV_PASSWORD")
    @@ (EnvName("LOCAL_", "FLASK_ENV") :> "TESTING")
    @@ (EnvName("CPANEL_", "DB_NAME") :> "prefixed_db")

EnvironWith(names) ==
    [n \in EnvNames |-> IF n \in names THEN SampleEnviron[n] ELSE Absent]


InitConstruct ==
    /\ flask_env \in EnvValues
    /\ environ \in {EnvironWith(S) : S \in SUBSET DOMAIN SampleEnviron}
    /\ fs = NoTree
    /\ alt_fs = NoTree
    /\ stage = NoStage
    /\ app = NoApp
    /\ last = NoExchange
    /\ prev = NoExchange
    /\ CachesIdle
    /\ HealthIdle

NextConstruct ==
    \/ call = NoCall /\ \E h \in {NoHint, "", "PRODUCTION", "DEVELOPMENT", "TESTING", "staging"} :
                            call_db_settings(h)
    \/ call = NoCall /\ call_get_db_url
    \/ call = NoCall /\ \E cls \in Classes : instantiate(cls)

SpecConstruct == InitConstruct /\ [][NextConstruct]_vars

----------------------------------------------------------------------------
(* A process lifetime of config.py: calls, environment changes, cache clears *)

\* the variable that changes
ChangedName == EnvName("", "DB_NAME")

ChangedProfiles == {"PRODUCTION", "DEVELOPMENT"}

\* production_env and dev_env together
InitSettings ==
    /\ flask_env \in ChangedProfiles
    /\ environ =
           EnvironWith({EnvName(p, f) : p \in {"", "LOCAL_"}, f \in RequiredFields})
    /\ fs = NoTree
    /\ alt_fs = NoTree
    /\ stage = NoStage
    /\ app = NoApp
    /\ last = NoExchange
    /\ prev = NoExchange
    /\ CachesIdle
    /\ HealthIdle

NextSettings ==
    \/ \E h \in {NoHint, "DEVELOPMENT"} : call_db_settings(h)
    \/ call_get_db_url
    \/ db_settings_cache_clear
    \/ get_db_url_cache_clear
    \/ \E v \in {Absent, "PRODUCTION_DB", "blog_db"} : setenv(ChangedName, v)
    \/ \E v \in ChangedProfiles : set_flask_env(v)

SpecSettings == InitSettings /\ [][NextSettings]_vars

----------------------------------------------------------------------------
(* Threads calling _db_settings() and get_db_url() for the first time.      *)
(* The lru_cache wrapper looks its key up and stores a result under the     *)
(* interpreter lock; the wrapped function runs outside it, so several       *)
(* threads that missed can be inside the function at once.                  *)

lru_store_never(cache, key, v) == cache

\* the wrapper after the function returned: the key may have been stored by
\* another thread meanwhile, and then the cache is left as it is
lru_store(cache, key, v) ==
    IF key \in DOMAIN cache THEN cache ELSE (key :> v) @@ cache

At(t, pc) == thr[t].pc = pc

Goto(t, pc) == [thr EXCEPT ![t].pc = pc]

Done(t, result) == [thr EXCEPT ![t].pc = "done", ![t].result = result]

thread_frame == <<flask_env, web_vars, health_vars, environ, call, rets>>

\* thread t calls fn: the wrapper of fn looks its key up
t_call(t, fn) ==
    /\ At(t, "idle")
    /\ LET started == [thr EXCEPT ![t].fn = fn, ![t].local = NoRet,
                                  ![t].result = NoRet]
       IN thr' =
           IF fn = "_db_settings"
           THEN IF NoHint \in DOMAIN db_cache
                THEN [started EXCEPT ![t].pc = "done", ![t].result = db_cache[NoHint]]
                ELSE [started EXCEPT ![t].pc = "db_body"]
           ELSE IF NoArgs \in DOMAIN url_cache
                THEN [started EXCEPT ![t].pc = "done", ![t].result = url_cache[NoArgs]]
                ELSE [started EXCEPT ![t].pc = "url_body"]
    /\ UNCHANGED <<thread_frame, db_cache, url_cache>>

\* the body of get_db_url calls _db_settings(): its wrapper looks the key up
t_inner_call(t) ==
    /\ At(t, "url_body")
    /\ thr' = IF NoHint \in DOMAIN db_cache
              THEN [thr EXCEPT ![t].pc = "url_have", ![t].local = db_cache[NoHint]]
              ELSE Goto(t, "db_body")
    /\ UNCHANGED <<thread_frame, db_cache, url_cache>>

\* the body of _db_settings: the class is constructed from the environment;
\* a validation error leaves through every caller
t_construct(t) ==
    /\ At(t, "db_body")
    /\ LET s == db_settings(NoHint, environ, flask_env)
       IN thr' = IF IsError(s)
                 THEN Done(t, s)
                 ELSE [thr EXCEPT ![t].pc = "db_built", ![t].local = s,
                                  ![t].built = TRUE]
    /\ UNCHANGED <<thread_frame, db_cache, url_cache>>

\* the wrapper of _db_settings stores and returns what this thread computed
t_store(t) ==
    /\ At(t, "db_built")
    /\ db_cache' = lru_store(db_cache, NoHint, thr[t].local)
    /\ thr' = IF thr[t].fn = "_db_settings"
              THEN Done(t, thr[t].local)
              ELSE Goto(t, "url_have")
    /\ UNCHANGED <<thread_frame, url_cache>>

\* .url, and the wrapper of get_db_url stores and returns it
t_url(t) ==
    /\ At(t, "url_have")
    /\ url_cache' = lru_store(url_cache, NoArgs, url(thr[t].local))
    /\ thr' = Done(t, url(thr[t].local))
    /\ UNCHANGED <<thread_frame, db_cache>>

\* the caller has its value and may call again
t_return(t) ==
    /\ At(t, "done")
    /\ thr' = Goto(t, "idle")
    /\ UNCHANGED <<thread_frame, db_cache, url_cache>>

ThreadFns == {"_db_settings", "get_db_url"}

\* dev_env, and production_env with or without its credentials
InitThreads ==
    /\ flask_env \in ChangedProfiles
    /\ environ \in
           {EnvironWith({EnvName(p, f) : p \in P, f \in RequiredFields}) :
               P \in {{"", "LOCAL_"}, {"LOCAL_"}}}
    /\ fs = NoTree
    /\ alt_fs = NoTree
    /\ stage = NoStage
    /\ app = NoApp
    /\ last = NoExchange
    /\ prev = NoExchange
    /\ CachesIdle
    /\ HealthIdle

NextThreads ==
    \E t \in Threads :
        \/ \E fn \in ThreadFns : t_call(t, fn)
        \/ t_inner_call(t)
        \/ t_construct(t)
        \/ t_store(t)
        \/ t_url(t)
        \/ t_return(t)

SpecThreads == InitThreads /\ [][NextThreads]_vars

----------------------------------------------------------------------------
(* api/routes/health.py: the three probes *)

\* subclasses of requests.exceptions.RequestException
RequestExceptions == {"Timeout", "ConnectionError"}

\* the database; GitHub (or a proxy on the way) answering with a status, or
\* requests.get raising a RequestException or, below it, a ValueError
DepStates ==
    [db : {"up", "acquire_raises", "exec_raises"},
     github : {Response(c) : c \in {200, 204, 304, 403, 500}}
                  \cup {Raises(e) : e \in RequestExceptions \cup {"ValueError"}}]

\* jsonify(body), status
jsonify(body, status) == [status |-> status, json |-> body]

\* an exception that leaves the view is answered by Flask
InternalServerError == [status |-> 500, json |-> [status |-> "error"]]

\* health()
health == jsonify([status |-> "healthy"], 200)

health_db_acquire_unguarded(db) ==
    CASE db = "acquire_raises" -> InternalServerError
      [] db = "exec_raises" ->
            jsonify([status |-> "unhealthy", database |-> "unreachable"], 503)
      [] OTHER -> jsonify([status |-> "healthy", database |-> "connected"], 200)

\* health_db(): next(get_db()) and db.exec(...) are both inside the try
health_db(db) ==
    LET acquired == db # "acquire_raises"
        executed == acquired /\ db # "exec_raises"
    IN IF executed
       THEN jsonify([status |-> "healthy", database |-> "connected"], 200)
       ELSE jsonify([status |-> "unhealthy", database |-> "unreachable"], 503)

\* Response.raise_for_status(): an HTTPError for a 4xx or 5xx status
raise_for_status(status) == 400 <= status /\ status < 600

\* health_github(): only a RequestException is caught, which the HTTPError
\* of raise_for_status is
health_github(github) ==
    IF github.kind = "raises"
    THEN IF github.exc \in RequestExceptions
         THEN jsonify([status |-> "unhealthy", github |-> "unreachable"], 503)
         ELSE InternalServerError
    ELSE IF raise_for_status(github.status)
         THEN jsonify([status |-> "unhealthy", github |-> "unreachable"], 503)
         ELSE jsonify([status |-> "healthy", github |-> "reachable"], 200)

RateLimitUrl == "https://api.github.com/rate_limit"
Timeout == 5

\* the calls health_db makes on the database: execution follows an
\* acquisition that did not raise
health_db_calls(db) ==
    IF db = "acquire_raises"
    THEN <<[op |-> "get_db"]>>
    ELSE <<[op |-> "get_db"], [op |-> "exec"]>>

health_github_calls_retry(github) ==
    LET get == [op |-> "requests.get", url |-> RateLimitUrl, timeout |-> Timeout]
    IN IF github = Response(200) THEN <<get>> ELSE <<get, get>>

\* the calls health_github makes on the network
health_github_calls(github) ==
    <<[op |-> "requests.get", url |-> RateLimitUrl, timeout |-> Timeout]>>

view(name, d) ==
    CASE name = "health" -> health
      [] name = "health_db" -> health_db(d.db)
      [] name = "health_github" -> health_github(d.github)

\* the calls a view makes on its dependency
view_calls(name, d) ==
    CASE name = "health" -> <<>>
      [] name = "health_db" -> health_db_calls(d.db)
      [] name = "health_github" -> health_github_calls(d.github)

\* the probe before this one and its status
Before == [name |-> probe.name,
           status |-> IF probe = NoProbe THEN 0 ELSE probe.resp.status]

get_probe_after_failure(name) ==
    /\ probe' = [name |-> name,
                 resp |-> IF Before.status = 503
                          THEN jsonify([status |-> "unhealthy"], 503)
                          ELSE view(name, deps),
                 calls |-> view_calls(name, deps),
                 deps |-> deps, after |-> Before]
    /\ UNCHANGED <<flask_env, web_vars, settings_vars, deps>>

\* GET /health, /health/db or /health/github
get_probe(name) ==
    /\ probe' = [name |-> name, resp |-> view(name, deps),
                 calls |-> view_calls(name, deps),
                 deps |-> deps, after |-> Before]
    /\ UNCHANGED <<flask_env, web_vars, settings_vars, deps>>

\* the database or the GitHub API goes down or comes back
deps_change ==
    /\ \E d \in DepStates : d # deps /\ deps' = d
    /\ UNCHANGED <<flask_env, web_vars, settings_vars, probe>>

InitHealth ==
    /\ flask_env = "TESTING"
    /\ fs = NoTree
    /\ alt_fs = NoTree
    /\ stage = NoStage
    /\ app = Running(FALSE, FALSE)
    /\ last = NoExchange
    /\ prev = NoExchange
    /\ SettingsIdle
    /\ deps \in DepStates
    /\ probe = NoProbe

NextHealth ==
    \/ \E name \in {"health", "health_db", "health_github"} : get_probe(name)
    \/ deps_change

SpecHealth == InitHealth /\ [][NextHealth]_vars

----------------------------------------------------------------------------
(* One process: create_app and _db_settings under the same FLASK_ENV *)


InitProfile ==
    /\ flask_env \in EnvValues \cup {"", "staging"}
    /\ fs \in HostFs
    /\ alt_fs = NoTree
    /\ stage = NoStage
    /\ app = NoApp
    /\ last = NoExchange
    /\ prev = NoExchange
    /\ environ =
           EnvironWith({EnvName(p, f) : p \in {"", "LOCAL_"}, f \in RequiredFields})
    /\ CachesIdle
    /\ HealthIdle

NextProfile ==
    \/ create_app
    \/ call_db_settings(NoHint)
    \/ call_get_db_url

SpecProfile == InitProfile /\ [][NextProfile]_vars

----------------------------------------------------------------------------
(* A request inside serve_spa while a deployment changes build_dir *)

RaceFs == {f \in HostFs : f.root = "dir"}

\* another process removes or restores files of the build directory
concurrent_change ==
    /\ \E f \in RaceFs : f # fs /\ fs' = f
    /\ stage' = [stage EXCEPT !.changed = @ \/ stage.at \notin {"idle", "done"},
                              !.raced = @ \/ stage.at \in {"send_file", "open_file",
                                                              "send_index", "open_index"}]
    /\ UNCHANGED <<flask_env, app, last, prev>>
    /\ UNCHANGED <<alt_fs, settings_vars, health_vars>>

InitRace ==
    /\ flask_env = "TESTING"
    /\ fs \in RaceFs
    /\ app = Running(FALSE, TRUE)
    /\ last = NoExchange
    /\ prev = NoExchange
    /\ alt_fs = NoTree
    /\ stage = NoStage
    /\ SettingsIdle
    /\ HealthIdle

NextRace ==
    \/ \E p \in HostPaths : spa_begin(Req(p, NoQuery))
    \/ spa_is_file
    \/ spa_send_file
    \/ spa_open_file
    \/ spa_exists
    \/ spa_send_index
    \/ spa_open_index
    \/ concurrent_change

SpecRace == InitRace /\ [][NextRace]_vars

----------------------------------------------------------------------------
(* Claims about one resolution *)

Handled == last.resp # NoResp
ByServeSpa == Handled /\ ~IsStaticRoute(last.req.path)
ByStaticView == Handled /\ IsStaticRoute(last.req.path)

\* the twice-decoded path holds ".." or a backslash
Rejectable(path) ==
    LET d == unquote(unquote(path)) IN Contains(d, dotdot) \/ Contains(d, backslash)

ReservedApi(path) == StartsWith(path, api_prefix)

\* the location pathlib gives the path below build_dir, and whether a regular
\* file lies there
Located(path) == PathSegments(Segments(path))
NamesFile(f, path) == path # <<>> /\ Stat(f, Located(path)) = "file"

IndexResp == [status |-> 200, kind |-> "index", error |-> "", loc |-> <<index_html>>]

C3_ApiAlways404 ==
    (Handled /\ ReservedApi(last.req.path)) => last.resp = NotFoundResp

\* C3 amended: a path that begins with "api/" is answered 404 {"error": "Not
\* found"}, unless its twice-decoded form holds ".." or a backslash, which is
\* answered 400 {"error": "Invalid path"}; either way the answer is a JSON
\* error, never the entry document or a file.
C3_ApiNeverHtml ==
    (Handled /\ ReservedApi(last.req.path)) =>
        /\ last.resp = (IF Rejectable(last.req.path) THEN InvalidPathResp ELSE NotFoundResp)
        /\ last.resp.kind = "json"

\* an api path is answered 404 although the entry document exists
C3_Witness ==
    /\ Handled
    /\ ReservedApi(last.req.path)
    /\ Len(last.req.path) > Len(api_prefix)
    /\ ~Rejectable(last.req.path)
    /\ last.fs.index = "file"
    /\ last.resp = NotFoundResp

C4_WitnessFile ==
    /\ ByServeSpa
    /\ last.fs.index = "file"
    /\ last.req.path = asset_name
    /\ last.resp = Sent(<<asset_name>>)

C5_NoIndexMeans503 ==
    (ByServeSpa /\ last.fs.index # "file"
        /\ ~Rejectable(last.req.path) /\ ~ReservedApi(last.req.path)
        /\ ~NamesFile(last.fs, last.req.path)) =>
        last.resp = UnavailableResp

\* C7 as stated: a path under "/static/" is resolved as any other path: 400
\* when rejectable, else the file it names, else the entry document, else 503.
C7_StaticSameLogic ==
    ByStaticView =>
        /\ Rejectable(last.req.path) => last.resp = InvalidPathResp
        /\ (~Rejectable(last.req.path) /\ ~NamesFile(last.fs, last.req.path)) =>
               last.resp \in {IndexResp, UnavailableResp}

StaticFilename(path) == SubSeq(path, Len(static_prefix) + 1, Len(path))

\* C7 amended: a path "/static/<filename>" is answered by Flask's static view
\* and not by serve_spa: 200 with the regular file the normalised filename names
\* inside build/static, and werkzeug's 404 Not Found in every other case (no
\* such file, a filename that leaves build/static, a backslash); it is never
\* answered with the entry document, 503 or 400.
C7_StaticView ==
    ByStaticView =>
        LET n == normpath(StaticFilename(last.req.path)) IN
        last.resp = (IF (n = <<>> \/ Head(n) # dotdot) /\ Stat(last.fs, static_dir \o n) = "file"
                     THEN Sent(static_dir \o n)
                     ELSE NotFound)

\* a missing static file is answered 404 although the entry document exists
C7_Witness ==
    /\ ByStaticView
    /\ last.fs.index = "file"
    /\ last.fs.static = "absent"
    /\ ~Rejectable(last.req.path)
    /\ last.resp = NotFound

FiveOutcomes(r) ==
    \/ r = InvalidPathResp
    \/ r = NotFoundResp
    \/ r = UnavailableResp
    \/ r = IndexResp
    \/ r.status = 200 /\ r.kind = "file"

\* C8: every resolution by serve_spa ends in one of the five outcomes 400
\* Invalid path, 404 Not found, 200 file, 200 entry document, 503 Service
\* unavailable; no other status and no unhandled exception.
C8_FiveOutcomes == ByServeSpa => FiveOutcomes(last.resp)

----------------------------------------------------------------------------
(* Claims about the host *)

Answered(x) == x.resp # NoResp

\* C6: two requests with the same path, answered from the same file-system
\* state, get the same response whatever their query strings hold.
C6_QueryIgnored ==
    (Answered(last) /\ Answered(prev)
        /\ last.req.path = prev.req.path /\ last.fs = prev.fs) =>
        last.resp = prev.resp

\* the entry document is served twice, once for a query string that holds ".."
C6_Witness ==
    /\ Answered(last) /\ Answered(prev)
    /\ last.req.path = prev.req.path /\ last.fs = prev.fs
    /\ prev.req.query = NoQuery
    /\ Contains(last.req.query, dotdot)
    /\ last.resp = IndexResp
    /\ prev.resp = IndexResp

\* C9: when build_dir is missing as create_app runs, create_app raises and
\* returns no application if FLASK_ENV is PRODUCTION or absent, and logs a
\* warning and returns a running application if FLASK_ENV is DEVELOPMENT or
\* TESTING.
C9_MissingBuildAtStartup ==
    (app.state # "none" /\ ~app.build_found) =>
        /\ flask_env \in {Absent, "PRODUCTION"} => app = Failed
        /\ flask_env \in {"DEVELOPMENT", "TESTING"} => (app.state = "running" /\ app.warned)

\* started in TESTING without build_dir, the application answers a request
C9_Witness ==
    /\ flask_env = "TESTING"
    /\ app.state = "running" /\ app.warned /\ ~app.build_found
    /\ Answered(last)

C9_WitnessFatal ==
    /\ flask_env = Absent
    /\ app = Failed

----------------------------------------------------------------------------
(* Claims about the asset root *)

\* the tree of the directory that FlaskSettings.BUILD_DIR names
SettingsTree == IF BUILD_DIR(environ) = DefaultBuildDir THEN fs ELSE alt_fs

\* C11: the asset root is the BUILD_DIR of the settings: a path that serve_spa
\* receives, neither rejected nor reserved, is answered with the file it names
\* under that directory, else with the entry document of that directory, and
\* with 503 when that directory has no entry document.
C11_AssetRootFromSettings ==
    (Answered(last) /\ last.fs = fs
        /\ ~IsStaticRoute(last.req.path)
        /\ ~Rejectable(last.req.path) /\ ~ReservedApi(last.req.path)) =>
        IF NamesFile(SettingsTree, last.req.path)
        THEN last.resp.kind = "file"
        ELSE IF SettingsTree.index = "file"
             THEN last.resp = IndexResp
             ELSE last.resp = UnavailableResp


----------------------------------------------------------------------------
(* Claims about the settings classes *)

\* the profile a call of _db_settings asks for: its hint, else FLASK_ENV
ProfileOf(c) == IF c.hint \notin {NoHint, ""} THEN c.hint ELSE c.flask_env

\* the variant each profile names
VariantOf(profile) ==
    CASE profile = "TESTING" -> "TestDBSettings"
      [] profile = "DEVELOPMENT" -> "DevDBSettings"
      [] OTHER -> "ProductionDBSettings"

\* the namespace of each class
Namespace(cls) ==
    IF cls \in {"TestDBSettings", "DevDBSettings"} THEN "LOCAL_" ELSE ""

\* the required fields with no variable in the namespace of cls
Unset(cls, env) ==
    {f \in RequiredFields : env[EnvName(Namespace(cls), f)] = Absent}

DbSettingsCalled == call.fn = "_db_settings"
Instantiated == call.fn \in Classes

\* C12: a call of _db_settings whose profile is absent or names no
\* registered profile returns a ProductionDBSettings instance and does not
\* raise, here even with every required production variable set.
C12_FallbackNeverRaises ==
    (DbSettingsCalled /\ ProfileOf(call) \notin FlaskEnv
        /\ Unset("ProductionDBSettings", call.environ) = {}) =>
        /\ call.result.kind = "settings"
        /\ call.result.cls = "ProductionDBSettings"

\* C13: a call of _db_settings whose profile (the hint when one is given,
\* else FLASK_ENV) is PRODUCTION, DEVELOPMENT or TESTING constructs exactly
\* the variant of that profile: it returns that variant's instance, or fails
\* with that variant's validation error.
C13_RegisteredVariant ==
    (DbSettingsCalled /\ ProfileOf(call) \in FlaskEnv) =>
        /\ call.result =
               construct(VariantOf(ProfileOf(call)), call.environ, call.flask_env)
        /\ call.result.kind = "settings" =>
               call.result.cls = VariantOf(ProfileOf(call))

\* the hint DEVELOPMENT wins over FLASK_ENV=PRODUCTION
C13_Witness ==
    /\ DbSettingsCalled /\ call.hint = "DEVELOPMENT" /\ call.flask_env = "PRODUCTION"
    /\ call.result.kind = "settings" /\ call.result.cls = "DevDBSettings"

\* without a hint FLASK_ENV=TESTING selects TestDBSettings
C13_WitnessEnv ==
    /\ DbSettingsCalled /\ call.hint = NoHint /\ call.flask_env = "TESTING"
    /\ call.result.kind = "settings" /\ call.result.cls = "TestDBSettings"

\* C14: constructing a class while some of DB_NAME, DB_USER, DB_PASSWORD have
\* no variable in its namespace fails with a validation error that names each
\* of them, and yields no instance; DB_HOST is never among the fields of an
\* error, and with no DB_HOST variable the host of an instance is 'localhost'.
C14_MissingFieldsNamed ==
    Instantiated =>
        /\ Unset(call.fn, call.environ) # {} =>
               /\ call.result.kind = "ValidationError"
               /\ Unset(call.fn, call.environ) \subseteq call.result.fields
        /\ call.result.kind = "ValidationError" =>
               "DB_HOST" \notin call.result.fields
        /\ (call.result.kind = "settings"
              /\ call.environ[EnvName("", "DB_HOST")] = Absent
              /\ call.environ[EnvName(Namespace(call.fn), "DB_HOST")] = Absent) =>
               call.result.DB_HOST = "localhost"

\* DevDBSettings() with LOCAL_DB_NAME and LOCAL_DB_PASSWORD unset
C14_Witness ==
    /\ call.fn = "DevDBSettings"
    /\ Unset("DevDBSettings", call.environ) = {"DB_NAME", "DB_PASSWORD"}
    /\ call.result = ValidationError({"DB_NAME", "DB_PASSWORD"})

\* ProductionDBSettings() with the three required variables and no host
C14_WitnessHost ==
    /\ call.fn = "ProductionDBSettings"
    /\ Unset("ProductionDBSettings", call.environ) = {}
    /\ call.environ[EnvName("", "DB_HOST")] = Absent
    /\ call.result.kind = "settings" /\ call.result.DB_HOST = "localhost"

\* the value of a field as the namespace of cls alone gives it
OwnValue(cls, field, env, default) ==
    IF env[EnvName(Namespace(cls), field)] = Absent
    THEN default
    ELSE env[EnvName(Namespace(cls), field)]

\* C18: every DB_* field of a constructed variant is the value of the
\* variable of that name in the variant's own namespace (the default when the
\* namespace has none), whatever the variables of other namespaces hold.
C18_OwnNamespaceOnly ==
    (call.fn \in Variants /\ call.result.kind = "settings") =>
        /\ call.result.DB_HOST =
               OwnValue(call.fn, "DB_HOST", call.environ, "localhost")
        /\ call.result.DB_NAME =
               OwnValue(call.fn, "DB_NAME", call.environ, Required)
        /\ call.result.DB_USER =
               OwnValue(call.fn, "DB_USER", call.environ, Required)
        /\ call.result.DB_PASSWORD =
               OwnValue(call.fn, "DB_PASSWORD", call.environ, Required)


----------------------------------------------------------------------------
(* Claims about the settings caches *)

SettingsCalled == call.fn \in {"_db_settings", "get_db_url"}

\* what the call computes from the environment it ran in
Fresh(c) ==
    LET profile == IF c.fn = "_db_settings" THEN ProfileOf(c) ELSE c.flask_env
        s == construct(VariantOf(profile), c.environ, c.flask_env)
    IN IF c.fn = "_db_settings" \/ s.kind = "ValidationError" THEN s ELSE url(s)

\* C15: a call of _db_settings or get_db_url returns what the same call
\* returned before, whatever the environment has become, as long as its cache
\* has not been cleared since; a call made with both caches empty returns
\* what the environment of that moment gives.
C15_StableUntilCleared ==
    SettingsCalled =>
        /\ call.prior # NoRet => call.result = call.prior
        /\ call.cold => call.result = Fresh(call)

\* a cached call that no longer matches the environment
C15_Witness ==
    /\ SettingsCalled /\ call.prior # NoRet
    /\ call.result = call.prior /\ call.result # Fresh(call)

\* after both caches were cleared the changed database name is returned
C15_WitnessCleared ==
    /\ call.fn = "get_db_url" /\ call.cold
    /\ call.environ[ChangedName] = "blog_db"
    /\ call.result.kind = "url" /\ call.result.text[8] = "blog_db"

\* the values _db_settings has returned since its cache was cleared
DbSettingsReturns == {rets[s] : s \in {x \in DOMAIN rets : x[1] = "_db_settings"}}

\* C16: without cache clearing every call of _db_settings, with or without a
\* hint, returns the same single Settings instance, and the registry is as
\* it was at startup.
C16_OneInstance ==
    /\ Cardinality(DbSettingsReturns) <= 1
    /\ registry = [p \in FlaskEnv |-> VariantOf(p)]

\* C16 amended: _db_settings keeps one instance for each distinct hint: every
\* call returns the instance cached under its hint, which is the one the same
\* call returned before, and the registry is as it was at startup; calls with
\* different hints may return different variants.
C16_OneInstancePerHint ==
    /\ DbSettingsCalled => (call.prior # NoRet => call.result = call.prior)
    /\ \A s \in DOMAIN rets :
           s[1] = "_db_settings" =>
               (s[2] \in DOMAIN db_cache /\ rets[s] = db_cache[s[2]])
    /\ registry = [p \in FlaskEnv |-> VariantOf(p)]

\* the production instance and the development instance, both returned twice
C16_Witness ==
    /\ DbSettingsCalled /\ call.hint = "DEVELOPMENT" /\ call.prior # NoRet
    /\ call.result.cls = "DevDBSettings"
    /\ Sig("_db_settings", NoHint) \in DOMAIN rets
    /\ rets[Sig("_db_settings", NoHint)].cls = "ProductionDBSettings"
    /\ db_cache[NoHint] = rets[Sig("_db_settings", NoHint)]


----------------------------------------------------------------------------
(* Claims about concurrent first access *)

\* the threads that have constructed a Settings instance
Constructors == {t \in Threads : thr[t].built}

\* what a call of fn gives in the environment, which does not change here
FreshOf(fn) ==
    LET s == construct(VariantOf(flask_env), environ, flask_env)
    IN IF fn = "_db_settings" \/ s.kind = "ValidationError" THEN s ELSE url(s)

CacheOf(fn) == IF fn = "_db_settings" THEN db_cache ELSE url_cache
KeyOf(fn) == IF fn = "_db_settings" THEN NoHint ELSE NoArgs

\* C17: threads that call _db_settings or get_db_url concurrently for the
\* first time in an unchanged environment all obtain the same values, and
\* Settings is constructed once.
C17_ConstructedOnce ==
    /\ \A t \in Threads : At(t, "done") => thr[t].result = FreshOf(thr[t].fn)
    /\ Cardinality(Constructors) <= 1

\* C17 amended: every caller obtains the values the unchanged environment
\* gives; as soon as one call has returned a value, that value is in the cache
\* and the cache holds nothing else, so every later call returns it; Settings
\* may be constructed by each thread that found the cache empty.
C17_SameValuesStableCache ==
    /\ \A t \in Threads :
           At(t, "done") =>
               /\ thr[t].result = FreshOf(thr[t].fn)
               /\ ~IsError(thr[t].result) =>
                      /\ KeyOf(thr[t].fn) \in DOMAIN CacheOf(thr[t].fn)
                      /\ CacheOf(thr[t].fn)[KeyOf(thr[t].fn)] = thr[t].result
    /\ \A fn \in ThreadFns :
           KeyOf(fn) \in DOMAIN CacheOf(fn) => CacheOf(fn)[KeyOf(fn)] = FreshOf(fn)

\* both threads constructed Settings, both returned the cached values
C17_Witness ==
    /\ Constructors = Threads
    /\ \A t \in Threads :
           /\ At(t, "done") /\ thr[t].fn = "_db_settings"
           /\ thr[t].result = db_cache[NoHint]


----------------------------------------------------------------------------
(* Claims about the health probes *)

Probed(name) == probe.name = name

\* C19: the liveness probe answers 200 {"status": "healthy"} in every state,
\* the status of the storage probe is 200 exactly when the database works
\* at the moment of the call, and the answer of the external probe is what
\* the outcome of its own request gives, whatever the other dependency does
\* and whatever the probe before it answered.
C19_ProbesIndependent ==
    /\ Probed("health") =>
           probe.resp = [status |-> 200, json |-> [status |-> "healthy"]]
    /\ Probed("health_db") =>
           probe.resp.status = (IF probe.deps.db = "up" THEN 200 ELSE 503)
    /\ Probed("health_github") =>
           probe.resp = health_github(probe.deps.github)

\* the liveness probe right after a failed storage probe, database still down
C19_Witness ==
    /\ Probed("health") /\ probe.after = [name |-> "health_db", status |-> 503]
    /\ probe.deps.db # "up" /\ probe.resp.status = 200

\* the external probe succeeds right after a failed storage probe
C19_WitnessOther ==
    /\ Probed("health_github") /\ probe.after = [name |-> "health_db", status |-> 503]
    /\ probe.deps.db # "up" /\ probe.resp.status = 200

\* C20: the storage probe answers 200 {"status": "healthy", "database":
\* "connected"} exactly when the session is acquired and SELECT 1 runs without
\* an exception, and 503 {"status": "unhealthy", "database": "unreachable"}
\* when the acquisition or the execution raises.
C20_StorageProbe ==
    Probed("health_db") =>
        IF probe.deps.db = "up"
        THEN probe.resp =
                 [status |-> 200,
                  json |-> [status |-> "healthy", database |-> "connected"]]
        ELSE probe.resp =
                 [status |-> 503,
                  json |-> [status |-> "unhealthy", database |-> "unreachable"]]

\* the acquisition of the session raises
C20_Witness ==
    /\ Probed("health_db") /\ probe.deps.db = "acquire_raises"
    /\ probe.resp.status = 503 /\ probe.resp.json.database = "unreachable"

\* the query raises
C20_WitnessExec ==
    /\ Probed("health_db") /\ probe.deps.db = "exec_raises"
    /\ probe.resp.status = 503 /\ probe.resp.json.database = "unreachable"


GithubHealthy == [status |-> 200, json |-> [status |-> "healthy", github |-> "reachable"]]
GithubUnhealthy == [status |-> 503, json |-> [status |-> "unhealthy", github |-> "unreachable"]]
DbHealthy == [status |-> 200, json |-> [status |-> "healthy", database |-> "connected"]]
DbUnhealthy == [status |-> 503, json |-> [status |-> "unhealthy", database |-> "unreachable"]]

\* the outbound request completed with a 2xx status
Completed2xx(g) == g.kind = "response" /\ g.status \in 200..299

\* a non-2xx response, or a transport-level failure
FailedRequest(g) ==
    \/ g.kind = "response" /\ g.status \notin 200..299
    \/ g.kind = "raises" /\ g.exc \in {"Timeout", "ConnectionError"}

\* C21: the external probe answers 200 {"status": "healthy", "github":
\* "reachable"} only when the request completed with a 2xx status, and 503
\* {"status": "unhealthy", "github": "unreachable"} for every status outside
\* 200-299 and for every transport-level failure.
C21_ExternalProbe ==
    Probed("health_github") =>
        /\ probe.resp = GithubHealthy => Completed2xx(probe.deps.github)
        /\ FailedRequest(probe.deps.github) => probe.resp = GithubUnhealthy

\* C22: whatever the database or the outbound request raises, a probe
\* answers one of its two documented payloads and nothing else.
C22_NoEscape ==
    /\ Probed("health_db") => probe.resp \in {DbHealthy, DbUnhealthy}
    /\ Probed("health_github") => probe.resp \in {GithubHealthy, GithubUnhealthy}

\* C23: a probe makes one attempt on its dependency: the storage probe one
\* acquisition and at most one execution, the external probe one request to
\* https://api.github.com/rate_limit with a timeout of 5 seconds; a failure
\* of that attempt is answered 503 at once.
C23_SingleAttempt ==
    /\ Probed("health_db") =>
           /\ probe.calls \in {<<[op |-> "get_db"]>>,
                               <<[op |-> "get_db"], [op |-> "exec"]>>}
           /\ probe.deps.db # "up" => probe.resp = DbUnhealthy
    /\ Probed("health_github") =>
           /\ probe.calls =
                  <<[op |-> "requests.get",
                     url |-> "https://api.github.com/rate_limit",
                     timeout |-> 5]>>
           /\ (probe.deps.github.kind = "raises"
                 /\ probe.deps.github.exc \in {"Timeout", "ConnectionError"}) =>
                  probe.resp = GithubUnhealthy

\* the request timed out: one request, 503
C23_Witness ==
    /\ Probed("health_github") /\ probe.deps.github = Raises("Timeout")
    /\ Len(probe.calls) = 1 /\ probe.resp = GithubUnhealthy

\* the acquisition raised: nothing is executed, 503
C23_WitnessDb ==
    /\ Probed("health_db") /\ probe.deps.db = "acquire_raises"
    /\ probe.calls = <<[op |-> "get_db"]>> /\ probe.resp = DbUnhealthy


----------------------------------------------------------------------------
(* Claims about the profile at start-up *)

\* C24: the application create_app returns has cross-origin support exactly
\* when FLASK_ENV is DEVELOPMENT; with FLASK_ENV PRODUCTION or absent there
\* is none, whether create_app returned or raised.
C24_CorsOnlyInDevelopment ==
    /\ app.state = "running" => (app.cors <=> flask_env = "DEVELOPMENT")
    /\ flask_env \in {Absent, "PRODUCTION"} => ~app.cors

\* started in DEVELOPMENT, with cross-origin support
C24_Witness ==
    /\ flask_env = "DEVELOPMENT" /\ app.state = "running" /\ app.cors

\* started with FLASK_ENV absent and build_dir in place: none
C24_WitnessAbsent ==
    /\ flask_env = Absent /\ app.state = "running" /\ ~app.cors


----------------------------------------------------------------------------
(* Claims about the order of the checks in serve_spa *)

\* the path is "api/..." only after it has been decoded twice
ReservedOnceDecoded(path) ==
    ~ReservedApi(path) /\ StartsWith(unquote(unquote(path)), api_prefix)

C25_WitnessEncoded ==
    /\ ByServeSpa /\ last.req.path = api_encoded \o asset_name
    /\ last.resp = IndexResp


\* the existence check of the requested file raises
CheckRaises(f, path) == path # <<>> /\ Stat(f, Located(path)) = "error"

\* C26: when the existence check of the requested file raises, the error is
\* not propagated: the request is answered with the entry document (200)
\* when index.html exists, and with 503 otherwise.
C26_CheckErrorFallsThrough ==
    (ByServeSpa /\ ~Rejectable(last.req.path) /\ ~ReservedApi(last.req.path)
        /\ CheckRaises(last.fs, last.req.path)) =>
        IF last.fs.index = "file"
        THEN last.resp = IndexResp
        ELSE last.resp = UnavailableResp


\* the profile a FLASK_ENV value stands for: a value that names no profile
\* stands for PRODUCTION
ProfileFor(fe) == IF fe \in FlaskEnv THEN fe ELSE "PRODUCTION"

\* C27: for every value of FLASK_ENV, create_app and _db_settings use the
\* same profile, PRODUCTION for a value that names none: _db_settings
\* returns the variant of that profile, a missing build directory is fatal
\* exactly for PRODUCTION, and cross-origin support is on exactly for
\* DEVELOPMENT.
C27_SameProfile ==
    (app.state # "none" /\ DbSettingsCalled) =>
        /\ call.result.kind = "settings" =>
               call.result.cls = VariantOf(ProfileFor(flask_env))
        /\ ~app.build_found =>
               (app = Failed <=> ProfileFor(flask_env) = "PRODUCTION")
        /\ app.state = "running" =>
               (app.cors <=> ProfileFor(flask_env) = "DEVELOPMENT")


----------------------------------------------------------------------------
(* Claims about the two caches together *)

\* what get_db_url() returns is the url of what _db_settings() returns
UrlMatchesSettings ==
    (NoArgs \in DOMAIN url_cache /\ NoHint \in DOMAIN db_cache) =>
        url_cache[NoArgs] = url(db_cache[NoHint])

\* get_db_url still holds a url while _db_settings holds no settings
LoneSettingsClear == NoArgs \in DOMAIN url_cache /\ NoHint \notin DOMAIN db_cache

\* C28: in every reachable state, whatever was changed, called or cleared,
\* the string get_db_url() returns is the url of the Settings _db_settings()
\* returns.
C28_UrlMatchesSettings == UrlMatchesSettings

\* C28 amended: the url get_db_url() returns stays the url of the Settings
\* _db_settings() returns through every call, environment change and
\* clearing of get_db_url's cache or of both caches; only after
\* _db_settings' cache was cleared while get_db_url kept its url can the two
\* come to describe different settings.
C28_MatchesUnlessLoneClear ==
    [][(UrlMatchesSettings /\ ~LoneSettingsClear) => UrlMatchesSettings']_vars

\* get_db_url's cache alone was cleared and the environment changed: the url
\* is computed again from the cached settings, not from the environment
C28_Witness ==
    /\ call.fn = "get_db_url" /\ call.prior = NoRet /\ ~call.cold
    /\ call.result # Fresh(call)
    /\ NoArgs \in DOMAIN url_cache /\ NoHint \in DOMAIN db_cache
    /\ url_cache[NoArgs] = call.result
    /\ call.result = url(db_cache[NoHint])

\* every field of a cached instance has a value
Complete(s) ==
    /\ s.kind = "settings"
    /\ \A v \in {s.DB_HOST, s.DB_NAME, s.DB_USER, s.DB_PASSWORD} :
           v \notin {Absent, Required}
    /\ s.FLASK_ENV \in FlaskEnv

\* C29: a call of _db_settings that follows a call of the same kind that
\* raised returns a Settings instance as soon as the required variables of
\* its variant are set, without any cache clearing; the cache holds complete
\* Settings instances and nothing else.
C29_FailureNotMemoized ==
    /\ \A k \in DOMAIN db_cache : Complete(db_cache[k])
    /\ (DbSettingsCalled /\ call.after_error
          /\ Unset(VariantOf(ProfileOf(call)), call.environ) = {}) =>
           (call.result.kind = "settings" /\ Complete(call.result))

\* the call raised, DB_NAME was set, the same call returned an instance
C29_Witness ==
    /\ DbSettingsCalled /\ call.after_error
    /\ call.result.kind = "settings" /\ call.result.cls = "ProductionDBSettings"
    /\ db_cache[call.hint] = call.result


----------------------------------------------------------------------------
(* Claims about a request that races with a deployment *)

\* the outcomes the view documents
Documented(resp) ==
    \/ resp.kind \in {"file", "index"} /\ resp.status = 200
    \/ resp \in {InvalidPathResp, NotFoundResp, UnavailableResp}

\* without a change of the file system the steps of the view give the
\* answer of serve_spa on the file system the request arrived at
StepsRefineServeSpa ==
    (stage.at = "done" /\ ~stage.changed) =>
        last.resp = serve_spa(RequestPath(last.req), last.fs)

\* C30: a request during which the requested file or index.html was removed
\* or replaced between the view's is_file()/exists() check and the sending
\* of the file ends in a documented outcome (a file or the entry document
\* with 200, or the 503 JSON), never in an unhandled error or an HTML 404.
C30_RaceEndsDocumented ==
    (stage.at = "done" /\ stage.raced) => Documented(last.resp)

====
